---- MODULE Spec2Model ----
(***************************************************************************)
(* A model of sts_profile_auth (src/src/lib.rs): the INI-style parser      *)
(* parse_config_file, the profile table builder                            *)
(* AwsProfileInfo::fill_profile_map, the resolver                          *)
(* AwsProfileInfo::from_hashmap and StsInstance::new / get_provider.       *)
(*                                                                         *)
(* Strings are TLA+ strings; a character is a string of length one.        *)
(* Option<T> is a sequence: <<>> is None and <<v>> is Some(v).             *)
(* HashMap<K, V> is a function whose DOMAIN is the set of keys.            *)
(***************************************************************************)
EXTENDS Integers, Sequences, FiniteSets, TLC

VARIABLES
    fs,          \* the file system: path -> file object
    env,         \* the process environment read by the program
    written,     \* what was written to the file under parse, line by line
    pc,          \* position of the parse_config_file call: idle | fold | done
    rest,        \* the lines the fold has not consumed yet
    result,      \* the fold's accumulated table (result.0)
    profile,     \* the fold's current-profile context (result.1)
    parsed,      \* what parse_config_file returned
    last         \* the last public operation, its arguments and its result

vars == <<fs, env, written, pc, rest, result, profile, parsed, last>>

----------------------------------------------------------------------------
(* Option and HashMap *)

None == <<>>
Some(v) == <<v>>
IsSome(o) == o # <<>>
Unwrap(o) == o[1]

EmptyMap == [k \in {} |-> ""]
ContainsKey(m, k) == k \in DOMAIN m
Get(m, k) == IF k \in DOMAIN m THEN Some(m[k]) ELSE None
Insert(m, k, v) == [x \in DOMAIN m \cup {k} |-> IF x = k THEN v ELSE m[x]]

----------------------------------------------------------------------------
(* Strings *)

CharAt(s, i) == SubSeq(s, i, i)

\* The first index from i on whose character is not c (Len(s) + 1 if none),
\* and the last index up to i whose character is not c (0 if none).
RECURSIVE FirstNot(_, _, _)
FirstNot(s, c, i) ==
    IF i > Len(s) THEN i
    ELSE IF CharAt(s, i) # c THEN i ELSE FirstNot(s, c, i + 1)

RECURSIVE LastNot(_, _, _)
LastNot(s, c, i) ==
    IF i < 1 THEN 0
    ELSE IF CharAt(s, i) # c THEN i ELSE LastNot(s, c, i - 1)

\* The first index from i on whose character is c (0 if none).
RECURSIVE Find(_, _, _)
Find(s, c, i) ==
    IF i > Len(s) THEN 0
    ELSE IF CharAt(s, i) = c THEN i ELSE Find(s, c, i + 1)

\* str::trim_matches(' '): strips the leading and trailing U+0020 only.
TrimFrom(s, first) ==
    IF first > Len(s) THEN "" ELSE SubSeq(s, first, LastNot(s, " ", Len(s)))

trim_matches(s) == TrimFrom(s, FirstNot(s, " ", 1))

starts_with(s, c) == Len(s) >= 1 /\ CharAt(s, 1) = c

\* str::splitn(2, '='): one piece when there is no '=', else the text before
\* the first '=' and everything after it.
SplitAt(s, eq) ==
    IF eq = 0 THEN <<s>>
    ELSE <<SubSeq(s, 1, eq - 1), SubSeq(s, eq + 1, Len(s))>>

splitn2(s) == SplitAt(s, Find(s, "=", 1))

----------------------------------------------------------------------------
(* PROFILE_REGEX = ^\[(profile )?([^\]]+)\]$ *)

ProfilePrefix == "profile "

\* Regex::is_match: '[', one or more characters other than ']', then ']' at
\* the end of the text.
PROFILE_REGEX_is_match(line) ==
    /\ Len(line) >= 3
    /\ CharAt(line, 1) = "["
    /\ CharAt(line, Len(line)) = "]"
    /\ Find(line, "]", 2) = Len(line)

\* A header parser that never strips the optional "profile " prefix.
PROFILE_REGEX_group2_KeepPrefix(line) == SubSeq(line, 2, Len(line) - 1)

\* Capture group 2 of a matching line. The optional group takes "profile "
\* whenever at least one character is then left for group 2.
PROFILE_REGEX_group2(line) ==
    LET n == Len(line)
        p == Len(ProfilePrefix)
    IN  IF n >= p + 3 /\ SubSeq(line, 2, p + 1) = ProfilePrefix
        THEN SubSeq(line, p + 2, n - 1)
        ELSE SubSeq(line, 2, n - 1)

----------------------------------------------------------------------------
(* parse_config_file *)

\* File objects. Path::exists is false for Missing; Path::is_file is true
\* for a RegularFile only.
Missing == [kind |-> "missing"]
Directory == [kind |-> "dir"]
RegularFile(lines) == [kind |-> "file", lines |-> lines]

exists(f) == f.kind # "missing"
is_file(f) == f.kind = "file"

\* The filter_map closure: trims the line and drops it when it is empty or
\* starts with '#'.
KeepLine(t) == IF ~starts_with(t, "#") /\ t # "" THEN Some(t) ELSE None

LineFilter(l) == KeepLine(trim_matches(l))

\* The pieces of a line that is not a header, each trimmed.
TrimEach(parts) ==
    IF Len(parts) = 2
    THEN <<trim_matches(parts[1]), trim_matches(parts[2])>>
    ELSE <<trim_matches(parts[1])>>

KeyValue(line) == TrimEach(splitn2(line))

\* The match on the pieces: [key, value], both non-empty, is recorded under
\* the current profile when there is one; anything else changes nothing.
Record(res, prof, kv) ==
    IF Len(kv) = 2 /\ kv[1] # "" /\ kv[2] # ""
    THEN IF IsSome(prof)
         THEN <<Insert(res, Unwrap(prof),
                       Insert(IF Unwrap(prof) \in DOMAIN res
                              THEN res[Unwrap(prof)] ELSE EmptyMap,
                              kv[1], kv[2])),
                prof>>
         ELSE <<res, prof>>
    ELSE <<res, prof>>

\* The fold closure: (result, profile), line -> (result, profile).
FoldStep(acc, line) ==
    IF PROFILE_REGEX_is_match(line)
    THEN <<acc[1], Some(PROFILE_REGEX_group2(line))>>
    ELSE Record(acc[1], acc[2], KeyValue(line))

\* filter_map followed by one step of the fold, for one raw line.
Filtered(acc, line) ==
    IF IsSome(line) THEN FoldStep(acc, Unwrap(line)) ELSE acc

LineStep(acc, l) == Filtered(acc, LineFilter(l))

RECURSIVE FoldLines(_, _)
FoldLines(acc, lines) ==
    IF lines = <<>> THEN acc
    ELSE FoldLines(LineStep(acc, Head(lines)), Tail(lines))

\* parse_config_file as one call: None unless the path is a regular file.
parse_config_file(f) ==
    IF ~exists(f) \/ ~is_file(f) THEN None
    ELSE Some(FoldLines(<<EmptyMap, None>>, f.lines)[1])

----------------------------------------------------------------------------
(* AwsProfileInfo::from_hashmap *)

DefaultRegionName == "us-east-1"

AwsProfileInfo(name, region, key, secret, role_arn, source_profile) ==
    [name |-> name, region |-> region,
     aws_access_key_id |-> key, aws_secret_access_key |-> secret,
     role_arn |-> role_arn, source_profile |-> source_profile]

\* The key and the secret after the source profile's values have replaced
\* the profile's own: each Option::replace happens on its own.
SubstitutedKeys(prof_map, pmap) ==
    <<IF IsSome(Get(pmap, "aws_access_key_id"))
      THEN Get(pmap, "aws_access_key_id")
      ELSE Get(prof_map, "aws_access_key_id"),
      IF IsSome(Get(pmap, "aws_secret_access_key"))
      THEN Get(pmap, "aws_secret_access_key")
      ELSE Get(prof_map, "aws_secret_access_key")>>

\* A record built with an empty string in place of a missing value.
RecordOrNone_Partial(name, prof_map, keys) ==
    Some(AwsProfileInfo(
             name,
             IF IsSome(Get(prof_map, "region"))
             THEN Unwrap(Get(prof_map, "region")) ELSE DefaultRegionName,
             IF IsSome(keys[1]) THEN Unwrap(keys[1]) ELSE "",
             IF IsSome(keys[2]) THEN Unwrap(keys[2]) ELSE "",
             Get(prof_map, "role_arn"), Get(prof_map, "source_profile")))

\* The record, once both values are there.
RecordOrNone(name, prof_map, keys) ==
    IF ~IsSome(keys[1]) THEN None
    ELSE IF ~IsSome(keys[2]) THEN None
    ELSE Some(AwsProfileInfo(
             name,
             IF IsSome(Get(prof_map, "region"))
             THEN Unwrap(Get(prof_map, "region")) ELSE DefaultRegionName,
             Unwrap(keys[1]), Unwrap(keys[2]),
             Get(prof_map, "role_arn"), Get(prof_map, "source_profile")))

\* A resolver that falls back to the profile's own keys when its source is
\* not in the table.
from_hashmap_IgnoreDangling(profile_name, profile_map) ==
    IF ~ContainsKey(profile_map, profile_name) THEN None
    ELSE IF /\ IsSome(Get(profile_map[profile_name], "source_profile"))
            /\ ContainsKey(profile_map,
                           Unwrap(Get(profile_map[profile_name], "source_profile")))
    THEN RecordOrNone(profile_name, profile_map[profile_name],
             SubstitutedKeys(profile_map[profile_name],
                 profile_map[Unwrap(Get(profile_map[profile_name], "source_profile"))]))
    ELSE RecordOrNone(profile_name, profile_map[profile_name],
             <<Get(profile_map[profile_name], "aws_access_key_id"),
               Get(profile_map[profile_name], "aws_secret_access_key")>>)

from_hashmap(profile_name, profile_map) ==
    IF ~ContainsKey(profile_map, profile_name) THEN None
    ELSE LET prof_map == profile_map[profile_name]
             source_profile == Get(prof_map, "source_profile")
             own == <<Get(prof_map, "aws_access_key_id"),
                      Get(prof_map, "aws_secret_access_key")>>
         IN  IF IsSome(source_profile)
             THEN IF ~ContainsKey(profile_map, Unwrap(source_profile))
                  THEN None
                  ELSE RecordOrNone(profile_name, prof_map,
                           SubstitutedKeys(prof_map,
                                           profile_map[Unwrap(source_profile)]))
             ELSE RecordOrNone(profile_name, prof_map, own)

----------------------------------------------------------------------------
(* AwsProfileInfo::fill_profile_map *)

Ok(v) == [ok |-> TRUE, val |-> v]
Err(e) == [ok |-> FALSE, err |-> e]

NoHomeError == <<"NoHomeError">>
TlsError == <<"TlsError">>
StsProfileError(name) == <<"StsProfileError", name>>

\* PathBuf::join
Join(dir, name) == dir \o "/" \o name

FileAt(files, path) == IF path \in DOMAIN files THEN files[path] ELSE Missing

\* AWS_CONFIG_FILE when it is set, else <home>/.aws, else nothing.
ConfigDir(e) ==
    IF IsSome(e.AWS_CONFIG_FILE) THEN Some(Unwrap(e.AWS_CONFIG_FILE))
    ELSE IF IsSome(e.home_dir) THEN Some(Join(Unwrap(e.home_dir), ".aws"))
    ELSE None

\* A merge that replaces a known profile by the later file's section.
MergeProfile_Replace(profile_map, k, v) == Insert(profile_map, k, v)

\* One profile of a later file merged into the table: its keys overwrite
\* the known profile's keys one by one, and a new profile is inserted.
MergeProfile(profile_map, k, v) ==
    IF ContainsKey(profile_map, k)
    THEN Insert(profile_map, k,
                [x \in DOMAIN profile_map[k] \cup DOMAIN v |->
                    IF x \in DOMAIN v THEN v[x] ELSE profile_map[k][x]])
    ELSE Insert(profile_map, k, v)

\* The body of the loop for a table p that parse_config_file returned.
MergeTable(profile_map, p) ==
    IF DOMAIN profile_map = {} THEN p
    ELSE [k \in DOMAIN profile_map \cup DOMAIN p |->
            IF k \in DOMAIN p
            THEN MergeProfile(profile_map, k, p[k])[k]
            ELSE profile_map[k]]

MergeParsed(profile_map, p) ==
    IF IsSome(p) THEN MergeTable(profile_map, Unwrap(p)) ELSE profile_map

\* One iteration of the loop over [config_file, credential_file].
MergeFile(profile_map, f) ==
    IF ~exists(f) THEN profile_map
    ELSE MergeParsed(profile_map, parse_config_file(f))

\* The raw table after both files, config first.
RawProfileMap(files, dir) ==
    MergeFile(MergeFile(EmptyMap, FileAt(files, Join(dir, "config"))),
              FileAt(files, Join(dir, "credentials")))

\* The filter_map over the raw table's keys.
ResolveAll(profile_map) ==
    [k \in {x \in DOMAIN profile_map : IsSome(from_hashmap(x, profile_map))} |->
        Unwrap(from_hashmap(k, profile_map))]

\* A table builder that takes a missing config file for an error.
fill_profile_map_MissingIsError(e, files) ==
    IF ~IsSome(ConfigDir(e)) THEN Err(NoHomeError)
    ELSE IF ~exists(FileAt(files, Join(Unwrap(ConfigDir(e)), "config")))
    THEN Err(NoHomeError)
    ELSE Ok(ResolveAll(RawProfileMap(files, Unwrap(ConfigDir(e)))))

fill_profile_map(e, files) ==
    IF ~IsSome(ConfigDir(e)) THEN Err(NoHomeError)
    ELSE Ok(ResolveAll(RawProfileMap(files, Unwrap(ConfigDir(e)))))

----------------------------------------------------------------------------
(* StsInstance *)

KnownRegions == {"us-east-1", "us-west-2", "eu-west-1"}

\* Region::from_str(..).ok().unwrap_or_default(): an unknown name gives
\* Region::default().
RegionDefault == "Region::default"
ParseRegion(s) == IF s \in KnownRegions THEN s ELSE RegionDefault

\* A selection that lets AWS_PROFILE override the explicit argument.
SelectProfileName_EnvFirst(arg, e) ==
    IF IsSome(e.AWS_PROFILE) THEN Unwrap(e.AWS_PROFILE)
    ELSE IF IsSome(arg) THEN Unwrap(arg)
    ELSE "default"

\* The profile name StsInstance::new looks up.
SelectProfileName(arg, e) ==
    IF IsSome(arg) THEN Unwrap(arg)
    ELSE IF IsSome(e.AWS_PROFILE) THEN Unwrap(e.AWS_PROFILE)
    ELSE "default"

\* The (key, secret) match of StsInstance::new, on the resolved table.
InstanceKeys(profiles, current_profile) ==
    IF IsSome(current_profile.source_profile)
    THEN IF ContainsKey(profiles, Unwrap(current_profile.source_profile))
         THEN Ok(<<profiles[Unwrap(current_profile.source_profile)].aws_access_key_id,
                   profiles[Unwrap(current_profile.source_profile)].aws_secret_access_key>>)
         ELSE Err(StsProfileError(Unwrap(current_profile.source_profile)))
    ELSE Ok(<<current_profile.aws_access_key_id,
              current_profile.aws_secret_access_key>>)

StsInstance(region, key, secret, role_arn) ==
    [sts_client |-> [provider |-> <<key, secret>>, region |-> region],
     region |-> region,
     aws_access_key_id |-> key,
     aws_secret_access_key |-> secret,
     role_arn |-> role_arn]

\* StsInstance::new after its call of fill_profile_map has returned filled;
\* tls_ok is whether HttpClient::new() succeeds.
NewFromTable(filled, arg, e, tls_ok) ==
    LET profile_name == SelectProfileName(arg, e)
    IN  IF ~filled.ok THEN filled
        ELSE IF ~ContainsKey(filled.val, profile_name)
        THEN Err(StsProfileError(profile_name))
        ELSE LET current_profile == filled.val[profile_name]
                 keys == InstanceKeys(filled.val, current_profile)
             IN  IF ~keys.ok THEN keys
                 ELSE IF ~tls_ok THEN Err(TlsError)
                 ELSE Ok(StsInstance(ParseRegion(current_profile.region),
                                     keys.val[1], keys.val[2],
                                     current_profile.role_arn))

StsInstance_new(arg, e, files, tls_ok) ==
    NewFromTable(fill_profile_map(e, files), arg, e, tls_ok)

\* get_sts_auth_provider: the role provider, session name "default", wrapped
\* by AutoRefreshingProvider::new, which starts with nothing cached.
get_sts_auth_provider(client, role_arn, wrap_ok) ==
    IF wrap_ok
    THEN Ok([client |-> client, role_arn |-> role_arn,
             session_name |-> "default", cached |-> None])
    ELSE Err(<<"CredentialsError">>)

\* StsInstance::get_provider
get_provider(self, wrap_ok) ==
    IF IsSome(self.role_arn)
    THEN LET r == get_sts_auth_provider(self.sts_client, Unwrap(self.role_arn), wrap_ok)
         IN  IF r.ok THEN Ok(Some(r.val)) ELSE r
    ELSE Ok(None)

----------------------------------------------------------------------------
(* The inputs: environments and the files of the configuration directory *)

HomeDir == "/home/u"
OverrideDir == "/etc/aws"
ConfigPath == Join(Join(HomeDir, ".aws"), "config")
CredentialsPath == Join(Join(HomeDir, ".aws"), "credentials")

Names == <<"default", "dev", "ops">>
NameSet == {Names[i] : i \in 1..Len(Names)}

Env(override, home, aws_profile) ==
    [AWS_CONFIG_FILE |-> override, home_dir |-> home, AWS_PROFILE |-> aws_profile]

HomeEnv == Env(None, Some(HomeDir), None)

\* How a profile is written: which of its two keys the credentials file
\* holds and which profile, if any, the config file names as its source.
KeyOpts == {"none", "ak", "sk", "both"}
ProfileOpts(p) ==
    {[present |-> FALSE, keys |-> "none", source |-> None]}
    \cup {[present |-> TRUE, keys |-> k, source |-> s] :
            k \in KeyOpts, s \in {None} \cup {Some(q) : q \in NameSet \ {p}}}

ConfigHeader(p) == IF p = "default" THEN "[default]" ELSE "[profile " \o p \o "]"
CredentialsHeader(p) == "[" \o p \o "]"

\* The config file's section for p: an assume-role profile with its source,
\* or only a region when p has neither keys nor a source.
ConfigSection(p, o) ==
    IF ~o.present THEN <<>>
    ELSE IF IsSome(o.source)
    THEN <<ConfigHeader(p),
           "role_arn = arn:aws:iam::1:role/" \o p,
           "source_profile = " \o Unwrap(o.source),
           "region = us-west-2">>
    ELSE IF o.keys = "none" THEN <<ConfigHeader(p), "region = eu-west-1">>
    ELSE <<>>

CredentialsSection(p, o) ==
    IF ~o.present \/ o.keys = "none" THEN <<>>
    ELSE <<CredentialsHeader(p)>>
         \o (IF o.keys \in {"ak", "both"}
             THEN <<"aws_access_key_id = AK-" \o p>> ELSE <<>>)
         \o (IF o.keys \in {"sk", "both"}
             THEN <<"aws_secret_access_key=SK-" \o p>> ELSE <<>>)

\* The two files for one choice of options per profile.
WrittenFiles(o1, o2, o3) ==
    (ConfigPath :> RegularFile(ConfigSection(Names[1], o1)
                               \o ConfigSection(Names[2], o2)
                               \o ConfigSection(Names[3], o3)))
    @@ (CredentialsPath :> RegularFile(CredentialsSection(Names[1], o1)
                                       \o CredentialsSection(Names[2], o2)
                                       \o CredentialsSection(Names[3], o3)))

NoCall == [op |-> "none"]

ParserIdle ==
    /\ written = <<>>
    /\ pc = "idle"
    /\ rest = <<>>
    /\ result = EmptyMap
    /\ profile = None
    /\ parsed = None

\* Profiles with and without keys and sources, under the home directory.
InitResolve ==
    /\ env = HomeEnv
    /\ \E o1 \in ProfileOpts(Names[1]), o2 \in ProfileOpts(Names[2]),
          o3 \in ProfileOpts(Names[3]) :
            fs = WrittenFiles(o1, o2, o3)

\* One section of a file: its header, then key = value lines.
Section(header, pairs) ==
    <<header>> \o [i \in 1..Len(pairs) |-> pairs[i][1] \o " = " \o pairs[i][2]]

\* What one file may say about one profile; tag tells the files apart, so
\* that a value shows which file it came from.
RegionOf(tag) == IF tag = "1" THEN "us-west-2" ELSE "eu-west-1"
KeyPairs(tag) ==
    {<<>>,
     <<<<"aws_access_key_id", "AK" \o tag>>>>,
     <<<<"aws_access_key_id", "AK" \o tag>>,
       <<"aws_secret_access_key", "SK" \o tag>>>>}
AttrPairs(tag) ==
    {<<>>,
     <<<<"region", RegionOf(tag)>>>>,
     <<<<"region", RegionOf(tag)>>, <<"role_arn", "arn:role/r" \o tag>>>>}
PairOpts(tag) == {k \o a : k \in KeyPairs(tag), a \in AttrPairs(tag)}
FewPairOpts(tag) ==
    {<<>>,
     <<<<"region", "mars-1">>>>,
     <<<<"aws_access_key_id", "AK" \o tag \o "d">>,
       <<"aws_secret_access_key", "SK" \o tag \o "d">>>>}

SectionOrNothing(header, pairs) ==
    IF pairs = <<>> THEN <<>> ELSE Section(header, pairs)

\* Both files speak of the same two profiles and of the same keys.
InitMerge ==
    /\ env = HomeEnv
    /\ \E c1 \in PairOpts("1"), c2 \in FewPairOpts("1"),
          d1 \in PairOpts("2"), d2 \in FewPairOpts("2") :
         fs = (ConfigPath :> RegularFile(
                    SectionOrNothing(ConfigHeader(Names[1]), c1)
                    \o SectionOrNothing(ConfigHeader(Names[2]), c2)))
              @@ (CredentialsPath :> RegularFile(
                    SectionOrNothing(CredentialsHeader(Names[2]), d2)
                    \o SectionOrNothing(CredentialsHeader(Names[1]), d1)))

\* A file of each directory, with keys that tell the directories apart.
KeysFile(tag, with_profile) ==
    RegularFile(
        Section(IF with_profile THEN ConfigHeader(Names[1])
                ELSE CredentialsHeader(Names[1]),
                <<<<"aws_access_key_id", "AK" \o tag>>,
                  <<"aws_secret_access_key", "SK" \o tag>>>>)
        \o Section(IF with_profile THEN ConfigHeader(Names[2])
                   ELSE CredentialsHeader(Names[2]),
                   <<<<"aws_access_key_id", "AK" \o tag \o "d">>,
                     <<"aws_secret_access_key", "SK" \o tag \o "d">>,
                     <<"role_arn", "arn:role/r" \o tag>>>>))

FileKinds(tag, with_profile) ==
    {Missing, Directory, KeysFile(tag, with_profile)}

Envs ==
    {Env(o, h, a) : o \in {None, Some(OverrideDir)}, h \in {None, Some(HomeDir)},
                    a \in {None, Some(Names[2]), Some("gone")}}

\* Every environment, with each file missing, a directory or a file.
InitEnv ==
    /\ env \in Envs
    /\ \E hc \in FileKinds("h1", TRUE), hd \in FileKinds("h2", FALSE),
          oc \in FileKinds("o1", TRUE), od \in FileKinds("o2", FALSE) :
         fs = (ConfigPath :> hc) @@ (CredentialsPath :> hd)
              @@ (Join(OverrideDir, "config") :> oc)
              @@ (Join(OverrideDir, "credentials") :> od)

Init ==
    /\ ParserIdle
    /\ last = NoCall
    /\ (InitResolve \/ InitMerge \/ InitEnv)

----------------------------------------------------------------------------
(* The public operations *)

MaybeNames == {None} \cup {Some(n) : n \in NameSet}

\* The directory the program reads, and the raw table merged from it.
HasDir == IsSome(ConfigDir(env))
Dir == Unwrap(ConfigDir(env))
Raw == RawProfileMap(fs, Dir)

CallFillProfileMap ==
    /\ last' = [op |-> "fill_profile_map", ret |-> fill_profile_map(env, fs)]
    /\ UNCHANGED <<fs, env, written, pc, rest, result, profile, parsed>>

CallNew ==
    /\ \E filled \in {fill_profile_map(env, fs)} :
         \E arg \in MaybeNames, tls_ok \in BOOLEAN :
             last' = [op |-> "new", arg |-> arg,
                      ret |-> NewFromTable(filled, arg, env, tls_ok)]
    /\ UNCHANGED <<fs, env, written, pc, rest, result, profile, parsed>>

CallGetProvider ==
    /\ last.op = "new"
    /\ last.ret.ok
    /\ \E wrap_ok \in BOOLEAN :
         last' = [op |-> "get_provider", arg |-> last.arg, self |-> last.ret.val,
                  ret |-> get_provider(last.ret.val, wrap_ok)]
    /\ UNCHANGED <<fs, env, written, pc, rest, result, profile, parsed>>

Next == CallFillProfileMap \/ CallNew \/ CallGetProvider

Spec == Init /\ [][Next]_vars

----------------------------------------------------------------------------
(* parse_config_file, line by line, on a file written from known lines *)

MaxLines == 4

HeaderLine(name, text) == [kind |-> "header", name |-> name, text |-> text]
KeyValueLine(key, value, text) ==
    [kind |-> "kv", key |-> key, value |-> value, text |-> text]
OtherLine(kind, text) == [kind |-> kind, text |-> text]

\* Well-formed lines: [NAME], [profile NAME] and key = value.
HeaderLines ==
    {HeaderLine("a", "[a]"), HeaderLine("a", "[profile a]"),
     HeaderLine("b", "  [b] ")}
KeyValueLines ==
    {KeyValueLine("k", "v", "k=v"), KeyValueLine("k", "w", " k  =  w "),
     KeyValueLine("r", "v=w", "r = v=w")}
\* Lines that are neither: no '=', an empty key, an empty value, a blank
\* line, and comments whose first non-whitespace character is '#'.
MalformedLines ==
    {OtherLine("malformed", "this is not valid"), OtherLine("malformed", "= v"),
     OtherLine("malformed", "k =")}
BlankLines == {OtherLine("blank", "")}
CommentLines ==
    {OtherLine("comment", " # k = v"), OtherLine("comment", "\t# k = v")}

WrittenLines ==
    HeaderLines \cup KeyValueLines \cup MalformedLines \cup BlankLines
    \cup CommentLines

ParsePath == "/home/u/.aws/config"

Texts(ws) == [i \in 1..Len(ws) |-> ws[i].text]

InitParseOver(Lines) ==
    /\ env = HomeEnv
    /\ last = NoCall
    /\ pc = "idle"
    /\ rest = <<>>
    /\ result = EmptyMap
    /\ profile = None
    /\ parsed = None
    /\ \/ \E n \in 0..MaxLines :
            /\ written \in [1..n -> Lines]
            /\ fs = (ParsePath :> RegularFile(Texts(written)))
       \/ /\ written = <<>>
          /\ fs \in {(ParsePath :> Missing), (ParsePath :> Directory)}

\* The exists/is_file test, then File::open and the start of the fold.
ParseOpen ==
    /\ pc = "idle"
    /\ IF ~exists(fs[ParsePath]) \/ ~is_file(fs[ParsePath])
       THEN /\ parsed' = None
            /\ pc' = "done"
            /\ UNCHANGED <<rest, result, profile>>
       ELSE /\ rest' = fs[ParsePath].lines
            /\ result' = EmptyMap
            /\ profile' = None
            /\ pc' = "fold"
            /\ UNCHANGED parsed
    /\ UNCHANGED <<fs, env, written, last>>

\* One line through filter_map and the fold closure.
ParseLine ==
    /\ pc = "fold"
    /\ rest # <<>>
    /\ \E acc \in {LineStep(<<result, profile>>, Head(rest))} :
         /\ result' = acc[1]
         /\ profile' = acc[2]
    /\ rest' = Tail(rest)
    /\ UNCHANGED <<fs, env, written, pc, parsed, last>>

\* Some(result.0)
ParseReturn ==
    /\ pc = "fold"
    /\ rest = <<>>
    /\ parsed' = Some(result)
    /\ pc' = "done"
    /\ UNCHANGED <<fs, env, written, rest, result, profile, last>>

NextParse == ParseOpen \/ ParseLine \/ ParseReturn

\* Any lines at all.
InitParse == InitParseOver(WrittenLines)
SpecParse == InitParse /\ [][NextParse]_vars

\* Well-formed files: headers and key = value lines only.
InitWellFormed == InitParseOver(HeaderLines \cup KeyValueLines)
SpecWellFormed == InitWellFormed /\ [][NextParse]_vars

\* The line-by-line run returns what the one-call operator computes.
ParseAgrees ==
    pc = "done" => parsed = parse_config_file(fs[ParsePath])

----------------------------------------------------------------------------
(* What was written, read back *)

\* The header governing line j: the last header before it (0 if none).
RECURSIVE Governing(_)
Governing(j) ==
    IF j <= 1 THEN 0
    ELSE IF written[j - 1].kind = "header" THEN j - 1 ELSE Governing(j - 1)

\* The key = value lines written in a section of profile p.
SectionLines(p) ==
    {j \in 1..Len(written) :
        /\ written[j].kind = "kv"
        /\ Governing(j) # 0
        /\ written[Governing(j)].name = p}

HeaderNames == {written[i].name : i \in {j \in 1..Len(written) : written[j].kind = "header"}}

\* The last line of profile p that writes key k.
LastWrite(p, k) ==
    CHOOSE j \in SectionLines(p) :
        /\ written[j].key = k
        /\ \A i \in SectionLines(p) : written[i].key = k => i <= j

\* Table t holds, under p, exactly the keys written in p's sections, each
\* with its last written value.
HoldsSections(t, p) ==
    /\ p \in DOMAIN t
    /\ DOMAIN t[p] = {written[j].key : j \in SectionLines(p)}
    /\ \A k \in DOMAIN t[p] : t[p][k] = written[LastWrite(p, k)].value

Returned == pc = "done" /\ IsSome(parsed)

\* C7 as stated: a well-formed file parses to a table whose profiles are
\* exactly the names written as headers, each holding exactly the keys
\* written in its sections with the last written value of each.
C7_AsStated ==
    Returned =>
        /\ DOMAIN Unwrap(parsed) = HeaderNames
        /\ \A p \in HeaderNames : HoldsSections(Unwrap(parsed), p)

\* C7 amended: a well-formed file parses to a table whose profiles are
\* exactly the header names under which at least one key = value line is
\* written, each holding exactly the keys written in its sections with the
\* last written value of each; [profile NAME] and [NAME] name one profile.
C7_RoundTrip ==
    Returned =>
        /\ DOMAIN Unwrap(parsed) = {p \in HeaderNames : SectionLines(p) # {}}
        /\ \A p \in DOMAIN Unwrap(parsed) : HoldsSections(Unwrap(parsed), p)

\* A file with a key written twice, with two values, under one profile
\* reached through both header forms has been parsed.
C7_Witness ==
    /\ Returned
    /\ \E p \in HeaderNames :
         /\ \E i, j \in SectionLines(p) :
              /\ i < j
              /\ written[i].key = written[j].key
              /\ written[i].value # written[j].value
              /\ Governing(i) # Governing(j)
              /\ written[Governing(i)].text # written[Governing(j)].text

\* The line the fold is about to consume.
Current == written[Len(written) - Len(rest) + 1]

\* C8: a malformed line, a blank line, a '#' comment line, or a key = value
\* line before the first header leaves the table and the current-profile
\* context as they were.
C8_Ignored ==
    [][(/\ pc = "fold"
        /\ rest # <<>>
        /\ \/ Current.kind \in {"malformed", "blank", "comment"}
           \/ Current.kind = "kv" /\ profile = None)
       => (result' = result /\ profile' = profile)]_vars

----------------------------------------------------------------------------
(* Reading the last call *)

Filled == last.op = "fill_profile_map" /\ last.ret.ok
Table == last.ret.val
NewFor(a) == last.op = "new" /\ SelectProfileName(last.arg, env) = a
IsProfileError(r) == ~r.ok /\ r.err[1] = "StsProfileError"

RecordPair(rec) == <<rec.aws_access_key_id, rec.aws_secret_access_key>>

\* On a raw table: the profile's own pair and its source.
OwnKey(raw, p) == Get(raw[p], "aws_access_key_id")
OwnSecret(raw, p) == Get(raw[p], "aws_secret_access_key")
HasBoth(raw, p) == IsSome(OwnKey(raw, p)) /\ IsSome(OwnSecret(raw, p))
HasNeither(raw, p) == ~IsSome(OwnKey(raw, p)) /\ ~IsSome(OwnSecret(raw, p))
OwnPair(raw, p) == <<Unwrap(OwnKey(raw, p)), Unwrap(OwnSecret(raw, p))>>
SourceOf(raw, p) == Get(raw[p], "source_profile")
Sourced(raw, a, b) ==
    a \in DOMAIN raw /\ b \in DOMAIN raw /\ SourceOf(raw, a) = Some(b)
Dangling(raw, a) ==
    /\ a \in DOMAIN raw
    /\ IsSome(SourceOf(raw, a))
    /\ Unwrap(SourceOf(raw, a)) \notin DOMAIN raw

----------------------------------------------------------------------------
(* C2: source-profile indirection *)

C2_On(raw) ==
    \A a, b \in DOMAIN raw :
        (Sourced(raw, a, b) /\ HasNeither(raw, a) /\ HasBoth(raw, b)) =>
            /\ Filled =>
                  /\ a \in DOMAIN Table
                  /\ RecordPair(Table[a]) = OwnPair(raw, b)
                  /\ Table[a].role_arn = Get(raw[a], "role_arn")
                  /\ Get(raw[a], "region") \in {None, Some(Table[a].region)}
            /\ NewFor(a) =>
                  /\ ~IsProfileError(last.ret)
                  /\ last.ret.ok =>
                        /\ RecordPair(last.ret.val) = OwnPair(raw, b)
                        /\ last.ret.val.role_arn = Get(raw[a], "role_arn")

\* C2 as stated: when A names B as its source and holds no keys, and B holds
\* K1 and S1, the record built for A and the StsInstance created for A both
\* carry exactly (K1, S1), with A's own region and role_arn.
C2_AsStated == (HasDir /\ last.op # "none") => C2_On(Raw)

----------------------------------------------------------------------------
(* C4: a dangling source profile *)

\* The raw table with a's source_profile line taken out.
WithoutSource(raw, a) ==
    [p \in DOMAIN raw |->
        IF p = a
        THEN [k \in DOMAIN raw[p] \ {"source_profile"} |-> raw[p][k]]
        ELSE raw[p]]

C4_On(raw) ==
    \A a \in DOMAIN raw :
        Dangling(raw, a) =>
            /\ Filled =>
                  /\ a \notin DOMAIN Table
                  /\ \A p \in DOMAIN raw \ {a} :
                        /\ p \in DOMAIN Table
                              <=> IsSome(from_hashmap(p, WithoutSource(raw, a)))
                        /\ p \in DOMAIN Table
                              => Some(Table[p]) = from_hashmap(p, WithoutSource(raw, a))
            /\ NewFor(a) => last.ret = Err(StsProfileError(a))

\* C4: a profile whose source_profile names no profile of the merged table
\* is absent from the table fill_profile_map returns, even when it holds its
\* own key pair; StsInstance::new for it fails with the profile error naming
\* it; and every other profile resolves as it would without that reference.
C4_Dangling == (HasDir /\ last.op # "none") => C4_On(Raw)

C4_WitnessOn(raw) ==
    \E a \in DOMAIN raw :
        /\ Dangling(raw, a)
        /\ HasBoth(raw, a)
        /\ NewFor(a)
        /\ IsProfileError(last.ret)
        /\ DOMAIN raw # {a}

\* StsInstance::new has failed for a profile that holds both keys and a
\* dangling source, beside other profiles.
C4_Witness == HasDir /\ last.op = "new" /\ C4_WitnessOn(Raw)

----------------------------------------------------------------------------
(* C5: the source holds only one of the two values *)

\* The pair the claim expects for a, whose source b exists.
C5_Expected(raw, a, b) ==
    IF HasBoth(raw, b) THEN Some(OwnPair(raw, b))
    ELSE IF HasBoth(raw, a) THEN Some(OwnPair(raw, a))
    ELSE None

C5_On(raw) ==
    \A a, b \in DOMAIN raw :
        Sourced(raw, a, b) =>
            /\ a \in DOMAIN Table <=> IsSome(C5_Expected(raw, a, b))
            /\ a \in DOMAIN Table =>
                    Some(RecordPair(Table[a])) = C5_Expected(raw, a, b)

\* C5 as stated: with an existing source B, the pair resolved for A is B's
\* pair when B holds both values; otherwise it is A's own pair, and
\* resolution fails when A lacks either; never one value of each.
C5_AsStated == (HasDir /\ Filled) => C5_On(Raw)

----------------------------------------------------------------------------
(* C6: one level of indirection *)

C6_On(raw) ==
    \A a, b, c \in DOMAIN raw :
        (/\ a # b /\ b # c /\ a # c
         /\ Sourced(raw, a, b) /\ Sourced(raw, b, c)
         /\ HasBoth(raw, b) /\ HasBoth(raw, c)
         /\ OwnPair(raw, b) # OwnPair(raw, c)) =>
            /\ (Filled /\ a \in DOMAIN Table) =>
                    RecordPair(Table[a]) = OwnPair(raw, b)
            /\ (NewFor(a) /\ last.ret.ok) =>
                    RecordPair(last.ret.val) = OwnPair(raw, b)

\* C6 as stated: for a chain A -> B -> C where B holds its own pair KB and C
\* another pair KC, the keys of A's record and of the StsInstance created
\* for A are KB, never KC.
C6_AsStated == (HasDir /\ last.op # "none") => C6_On(Raw)

----------------------------------------------------------------------------
(* C3: merge precedence *)

ConfigFile == FileAt(fs, Join(Dir, "config"))
CredentialsFile == FileAt(fs, Join(Dir, "credentials"))

\* The table one file contributes: nothing when it is no regular file.
TableOrEmpty(p) == IF IsSome(p) THEN Unwrap(p) ELSE EmptyMap
FileTable(f) == TableOrEmpty(parse_config_file(f))

\* Key by key: the credentials file's value where it has one, else the
\* config file's.
ExpectedMerge(cfg, cred) ==
    [p \in DOMAIN cfg \cup DOMAIN cred |->
        [k \in (IF p \in DOMAIN cfg THEN DOMAIN cfg[p] ELSE {})
               \cup (IF p \in DOMAIN cred THEN DOMAIN cred[p] ELSE {}) |->
            IF p \in DOMAIN cred /\ k \in DOMAIN cred[p]
            THEN cred[p][k] ELSE cfg[p][k]]]

C3_On(merged) ==
    /\ Raw = merged
    /\ Table = ResolveAll(merged)

\* C3: the table fill_profile_map returns is resolved from the key-by-key
\* merge of the two files, config first: for every profile and key the
\* credentials file's value if it defines the key, otherwise the config
\* file's; profiles and keys of one file only are kept.
C3_MergePrecedence ==
    (HasDir /\ Filled) =>
        C3_On(ExpectedMerge(FileTable(ConfigFile), FileTable(CredentialsFile)))

C3_WitnessOn(cfg, cred) ==
    \E p \in DOMAIN cfg \cap DOMAIN cred \cap DOMAIN Table :
        /\ "region" \in DOMAIN cfg[p] \cap DOMAIN cred[p]
        /\ cfg[p]["region"] # cred[p]["region"]
        /\ "role_arn" \in DOMAIN cred[p] \ DOMAIN cfg[p]
        /\ "aws_access_key_id" \in DOMAIN cfg[p] \ DOMAIN cred[p]
        /\ Table[p].region = cred[p]["region"]
        /\ Table[p].role_arn = Some(cred[p]["role_arn"])
        /\ Table[p].aws_access_key_id = cfg[p]["aws_access_key_id"]

\* A profile with a region in both files, a role_arn in the second only and
\* its keys in the first only has been resolved.
C3_Witness ==
    HasDir /\ Filled /\ C3_WitnessOn(FileTable(ConfigFile), FileTable(CredentialsFile))

----------------------------------------------------------------------------
(* C9: missing files *)

C9_On(cfg, cred) ==
    /\ (~exists(cfg) /\ ~exists(cred)) =>
          /\ last.op = "fill_profile_map" => last.ret = Ok(EmptyMap)
          /\ last.op = "new" =>
                last.ret = Err(StsProfileError(SelectProfileName(last.arg, env)))
    /\ (exists(cfg) /\ ~exists(cred) /\ last.op = "fill_profile_map") =>
          last.ret = Ok(ResolveAll(FileTable(cfg)))
    /\ (~exists(cfg) /\ exists(cred) /\ last.op = "fill_profile_map") =>
          last.ret = Ok(ResolveAll(FileTable(cred)))

\* C9: with a configuration directory and neither file in it,
\* fill_profile_map returns an empty table without error and
\* StsInstance::new fails with the profile error for the name it selected;
\* with one file only, the table is the one resolved from that file.
C9_MissingFiles == (HasDir /\ last.op # "none") => C9_On(ConfigFile, CredentialsFile)

\* StsInstance::new, given no name, has failed for the AWS_PROFILE name in a
\* directory that holds neither file.
C9_Witness ==
    /\ HasDir
    /\ ~exists(ConfigFile) /\ ~exists(CredentialsFile)
    /\ last.op = "new" /\ last.arg = None /\ IsSome(env.AWS_PROFILE)
    /\ IsProfileError(last.ret)

----------------------------------------------------------------------------
(* C10: the resolved table *)

\* The values p can get with at most one indirection: its own and those of
\* the profile it names as its source.
OneLevel(raw, p, key) ==
    (IF key \in DOMAIN raw[p] THEN {raw[p][key]} ELSE {})
    \cup (IF /\ IsSome(SourceOf(raw, p))
             /\ Unwrap(SourceOf(raw, p)) \in DOMAIN raw
             /\ key \in DOMAIN raw[Unwrap(SourceOf(raw, p))]
          THEN {raw[Unwrap(SourceOf(raw, p))][key]} ELSE {})

Resolvable(raw, p) ==
    /\ ~Dangling(raw, p)
    /\ OneLevel(raw, p, "aws_access_key_id") # {}
    /\ OneLevel(raw, p, "aws_secret_access_key") # {}

C10_On(raw) ==
    /\ DOMAIN Table \subseteq DOMAIN raw
    /\ \A p \in DOMAIN Table :
         /\ Table[p].name = p
         /\ Table[p].aws_access_key_id # ""
         /\ Table[p].aws_secret_access_key # ""
         /\ Table[p].aws_access_key_id \in OneLevel(raw, p, "aws_access_key_id")
         /\ Table[p].aws_secret_access_key \in OneLevel(raw, p, "aws_secret_access_key")
    /\ \A p \in DOMAIN raw : p \in DOMAIN Table <=> Resolvable(raw, p)

\* C10: fill_profile_map succeeds whenever the directory is known, and
\* every record of its table is named by its key and holds a non-empty
\* access key and a non-empty secret, each the profile's own or its
\* source's; a raw profile is in the table exactly when it can be resolved
\* that way.
C10_ResolvedTable ==
    (HasDir /\ last.op = "fill_profile_map") => (last.ret.ok /\ C10_On(Raw))

C10_WitnessOn(raw) ==
    /\ \E p \in DOMAIN Table :
         /\ IsSome(SourceOf(raw, p))
         /\ HasNeither(raw, p)
    /\ \E p \in DOMAIN raw \ DOMAIN Table :
         /\ ~Dangling(raw, p)
         /\ OneLevel(raw, p, "aws_access_key_id") # {}

\* A table has been built that holds a profile resolved through its source
\* and leaves out a profile that has an access key but no secret.
C10_Witness == HasDir /\ Filled /\ C10_WitnessOn(Raw)

----------------------------------------------------------------------------
(* C13: profile name selection *)

\* The name the last call of StsInstance::new is to use: its argument, else
\* AWS_PROFILE, else "default".
C13_Name ==
    IF last.arg # None THEN last.arg[1]
    ELSE IF env.AWS_PROFILE # None THEN env.AWS_PROFILE[1]
    ELSE "default"

C13_On(table, n) ==
    /\ n \notin DOMAIN table => last.ret = Err(StsProfileError(n))
    /\ n \in DOMAIN table =>
          /\ last.ret # Err(StsProfileError(n))
          /\ last.ret.ok =>
                /\ last.ret.val.role_arn = table[n].role_arn
                /\ last.ret.val.region = ParseRegion(table[n].region)
                /\ table[n].source_profile = None =>
                      RecordPair(last.ret.val) = RecordPair(table[n])

C13_WitnessOn(table) ==
    /\ last.ret.ok
    /\ Unwrap(last.arg) \in DOMAIN table
    /\ Unwrap(env.AWS_PROFILE) \in DOMAIN table
    /\ RecordPair(last.ret.val) = RecordPair(table[Unwrap(last.arg)])
    /\ RecordPair(last.ret.val) # RecordPair(table[Unwrap(env.AWS_PROFILE)])
    /\ last.ret.val.role_arn # table[Unwrap(env.AWS_PROFILE)].role_arn

----------------------------------------------------------------------------
(* C14: the table and the instance *)

C14_On(table, n) ==
    n \in DOMAIN table =>
        /\ ~IsProfileError(last.ret)
        /\ last.ret.ok => RecordPair(last.ret.val) = RecordPair(table[n])

\* C14 as stated: for every profile name in the table fill_profile_map
\* returns, StsInstance::new for that name does not fail with a profile
\* error, and the key pair it installs is the one of that name's record.
C14_AsStated ==
    (HasDir /\ last.op = "new") =>
        C14_On(fill_profile_map(env, fs).val, SelectProfileName(last.arg, env))

====
